---- MODULE Spec2Model ----
(***************************************************************************)
(* Authentication and account-security state machine of natours           *)
(* (controllers/authController.js, models/userModel.js).                   *)
(*                                                                         *)
(* The credential store is the MongoDB users collection.  In Spec,         *)
(* SpecReset, SpecSession and SpecRole requests are served one at a time:  *)
(* every write a handler issues has reached the store before the next      *)
(* request starts.  Spec covers signup, confirmation, login, lockout and   *)
(* unlock; SpecReset password recovery; SpecSession the access guard and   *)
(* password updates; SpecRole role restriction.  In SpecRace the login and *)
(* unlock requests of one account interleave at their awaits;              *)
(* SpecRecovery runs lockout and password recovery of one account          *)
(* together, one request at a time.  The model methods the controller      *)
(* calls are not part of the model file at hand and follow the documented  *)
(* behaviour.                                                              *)
(***************************************************************************)
EXTENDS Integers, Sequences, FiniteSets, Bags, TLC

VARIABLES store, now, nextToken, sessions, last, fails, updatedAt, spent,
          reqs, checked, mailed

vars == <<store, now, nextToken, sessions, last, fails, updatedAt, spent,
          reqs, checked, mailed>>

(* ---------------------------- bounds ---------------------------------- *)
MaxTime == 2
MaxTokens == 3
\* requests in flight at a time, and wrong passwords compared per account,
\* in SpecRace
MaxRequests == 2
MaxChecks == 4

(* ------------------------- input domains ------------------------------ *)
Emails == {"a@x.com", "b@x.com"}
GoodPasswords == {"pass1234", "pass5678"}
Passwords == GoodPasswords \cup {"short"}
\* request bodies: <<password, passwordConfirm>>
PasswordForms == {<<"pass1234", "pass1234">>, <<"pass5678", "pass5678">>,
                  <<"short", "short">>, <<"pass1234", "pass5678">>}
RawTokens == 1 .. (MaxTokens + 1)
Roles == {"user", "guide", "admin"}
\* the role of a user whose signup body named none
DefaultRole == "user"

(* ---------------------- undefined field values ------------------------ *)
NoToken == 0
NoTime == 0 - 1

(* --------------------------- constants -------------------------------- *)
minLength == 8
LoginAttemptsLimit == 2
JwtExpiresIn == 2
ResetWindow == 1
ValidationErrorStatus == 400
HashBase == 100

(* ------------------------- pure functions ----------------------------- *)
\* crypto.createHash('sha256').update(t).digest('hex'): deterministic,
\* collision free on the raw tokens, and never equal to its input.
sha256(t) == HashBase + t

\* bcrypt.hash(password, 12)
bcryptHash(p) == <<"bcrypt", p>>

\* user.correctPassword(candidate, userPassword): bcrypt.compare
correctPassword(candidate, userPassword) == bcryptHash(candidate) = userPassword

\* user.changedPasswordAfter(JWTTimestamp)
changedPasswordAfter(user, iat) ==
  user.passwordChangedAt # NoTime /\ user.passwordChangedAt > iat

\* schema validators run by create() and by save() with validation:
\* password minLength, passwordConfirm === password
validPassword(password, passwordConfirm) ==
  Len(password) >= minLength /\ passwordConfirm = password

\* signToken(id): jwt.sign({ id }, secret, { expiresIn })
signToken(id) == [id |-> id, iat |-> now, exp |-> now + JwtExpiresIn, signed |-> TRUE]

\* promisify(jwt.verify)(token, secret): signature and expiry
jwtVerify(token) == token.signed /\ now < token.exp

\* userSchema.pre('save'): hash the password when it was modified
preSaveHash(user, newPassword) ==
  [user EXCEPT !.password = bcryptHash(newPassword)]

\* userSchema.pre('save'): stamp passwordChangedAt when the password of an
\* existing user was modified
preSaveChangedAt(user) == [user EXCEPT !.passwordChangedAt = now]

\* schema defaults of a document built by User.create
newUser(password, passwordChangedAt, role) ==
  [password |-> bcryptHash(password),
   role |-> role,
   confirmedEmail |-> FALSE,
   emailConfirmToken |-> NoToken,
   passwordResetToken |-> NoToken,
   passwordResetExpires |-> NoTime,
   accountUnlockToken |-> NoToken,
   loginAttempts |-> 0,
   locked |-> FALSE,
   passwordChangedAt |-> passwordChangedAt]

\* user.createEmailConfirmationToken(): store the hash of a fresh raw token
createEmailConfirmationToken(user) ==
  [user EXCEPT !.emailConfirmToken = sha256(nextToken)]

\* user.createAccountUnlockToken()
createAccountUnlockToken(user) ==
  [user EXCEPT !.accountUnlockToken = sha256(nextToken)]

\* user.createPasswordResetToken()
createPasswordResetToken(user) ==
  [user EXCEPT !.passwordResetToken = sha256(nextToken),
               !.passwordResetExpires = now + ResetWindow]

Users == DOMAIN store

\* User.findOne({ <field>: hashedToken })
findByToken(field, hashedToken) ==
  {e \in Users : store[e][field] = hashedToken}

(* ----------------------- response bookkeeping ------------------------- *)
NoSession == [id |-> "", iat |-> 0, exp |-> 0, signed |-> FALSE]

\* what the last request was and how it ended; mail tells whether the
\* request called sendEmail ("none" when it did not) and how the call ended
Response(op, user, token, handler, status, issued) ==
  [op |-> op, user |-> user, token |-> token, password |-> "",
   handler |-> handler, status |-> status, issued |-> issued,
   mail |-> "none", bearer |-> NoSession, roles |-> {}, e2e |-> 0]

\* how far the response carries the lockout scenario: 1 for the attempt that
\* follows the third wrong password on a confirmed account and is answered
\* with a delivered unlock mail, 2 for the unlock with the mailed token right
\* after it, 3 for the correct-password login right after that
Scenario(response, stage) == [response EXCEPT !.e2e = stage]

\* a response of a request that went through protect with this token
Carrying(response, token) == [response EXCEPT !.bearer = token]

\* a response of a request that called sendEmail once
Mailed(response, mailOk) ==
  [response EXCEPT !.mail = IF mailOk THEN "sent" ELSE "failed"]

\* the same for POST /login, with the password of the request body
LoginResponse(email, password, handler, status, issued) ==
  [Response("login", email, NoToken, handler, status, issued)
     EXCEPT !.password = password]

(* ------------------------------ Init ---------------------------------- *)
\* a request between two awaits: where it stands and what it holds in its
\* own copy of the user document
Request(pc, email, password, token) ==
  [pc |-> pc, email |-> email, password |-> password, token |-> token,
   attempts |-> 0, locks |-> FALSE]

Init ==
  /\ store = << >>
  /\ now = 0
  /\ nextToken = 1
  /\ sessions = {}
  /\ last = Response("init", "", NoToken, "", 0, FALSE)
  /\ fails = [e \in Emails |-> 0]
  /\ updatedAt = [e \in Emails |-> NoTime]
  /\ spent = {}
  /\ reqs = EmptyBag
  /\ checked = [e \in Emails |-> 0]
  /\ mailed = {}

(* ----------------------------- signup --------------------------------- *)
\* exports.signup.  A rejected sendEmail leaves the request without a
\* response (status 0): sendEmailToken is called without next.
signup(email, password, passwordConfirm, passwordChangedAt, role) ==
  /\ nextToken <= MaxTokens
  /\ IF email \in Users \/ ~validPassword(password, passwordConfirm)
     THEN /\ last' = Response("signup", email, NoToken, "signup",
                              ValidationErrorStatus, FALSE)
          /\ UNCHANGED <<store, nextToken>>
     ELSE /\ store' = (email :> createEmailConfirmationToken(
                                   newUser(password, passwordChangedAt, role))) @@ store
          /\ nextToken' = nextToken + 1
          /\ \E mailOk \in BOOLEAN :
               last' = Mailed(Response("signup", email, NoToken, "signup",
                                       IF mailOk THEN 200 ELSE 0, FALSE), mailOk)
  /\ UNCHANGED <<now, sessions, fails, updatedAt, spent>>

(* -------------------------- confirmEmail ------------------------------ *)
\* confirmEmail that leaves the confirmation token stored
confirmEmail_keepToken(token) ==
  LET found == findByToken("emailConfirmToken", sha256(token)) IN
  IF found = {}
  THEN /\ last' = Response("confirmEmail", "", token, "confirmEmail", 401, FALSE)
       /\ UNCHANGED <<store, now, nextToken, sessions, fails, updatedAt, spent>>
  ELSE \E e \in found :
       /\ store' = [store EXCEPT ![e].confirmedEmail = TRUE]
       /\ sessions' = sessions \cup {signToken(e)}
       /\ last' = Response("confirmEmail", e, token, "confirmEmail", 200, TRUE)
       /\ UNCHANGED <<now, nextToken, fails, updatedAt, spent>>

confirmEmail(token) ==
  LET found == findByToken("emailConfirmToken", sha256(token)) IN
  IF found = {}
  THEN /\ last' = Response("confirmEmail", "", token, "confirmEmail", 401, FALSE)
       /\ UNCHANGED <<store, now, nextToken, sessions, fails, updatedAt, spent>>
  ELSE \E e \in found :
       /\ store' = [store EXCEPT ![e].confirmedEmail = TRUE,
                                 ![e].emailConfirmToken = NoToken]
       /\ sessions' = sessions \cup {signToken(e)}
       /\ last' = Response("confirmEmail", e, token, "confirmEmail", 200, TRUE)
       /\ UNCHANGED <<now, nextToken, fails, updatedAt, spent>>

(* ------------------- checkUserLocked, then login ---------------------- *)
\* failedAttempt with the comparison one too high
failedAttempt_offByOne(user) ==
  LET counted == [user EXCEPT !.loginAttempts = user.loginAttempts + 1] IN
  IF counted.loginAttempts > LoginAttemptsLimit + 1
  THEN [counted EXCEPT !.locked = TRUE]
  ELSE counted

\* the failed-password branch of exports.login: count the attempt, lock the
\* account past the limit, save
failedAttempt(user) ==
  LET counted == [user EXCEPT !.loginAttempts = user.loginAttempts + 1] IN
  IF counted.loginAttempts > LoginAttemptsLimit
  THEN [counted EXCEPT !.locked = TRUE]
  ELSE counted

\* one more completed login request with a wrong password (counted up to 3)
oneMoreFail(email) == [fails EXCEPT ![email] = IF @ < 3 THEN @ + 1 ELSE @]

\* login without step 5, the confirmedEmail check
login_noConfirmCheck(email, password) ==
  IF email = "" \/ password = ""
  THEN /\ last' = LoginResponse(email, password, "login", 400, FALSE)
       /\ UNCHANGED <<store, sessions, fails, nextToken>>
  ELSE IF email \in Users /\ ~correctPassword(password, store[email].password)
  THEN /\ store' = [store EXCEPT ![email] = failedAttempt(store[email])]
       /\ fails' = oneMoreFail(email)
       /\ last' = LoginResponse(email, password, "login", 401, FALSE)
       /\ UNCHANGED <<sessions, nextToken>>
  ELSE IF email \notin Users
  THEN /\ last' = LoginResponse(email, password, "login", 401, FALSE)
       /\ UNCHANGED <<store, sessions, fails, nextToken>>
  ELSE /\ sessions' = sessions \cup {signToken(email)}
       /\ fails' = [fails EXCEPT ![email] = 0]
       /\ last' = LoginResponse(email, password, "login", 200, TRUE)
       /\ UNCHANGED <<store, nextToken>>

\* exports.login, reached when checkUserLocked calls next()
login(email, password) ==
  IF email = "" \/ password = ""
  THEN /\ last' = LoginResponse(email, password, "login", 400, FALSE)
       /\ UNCHANGED <<store, sessions, fails, nextToken>>
  ELSE IF email \in Users /\ ~correctPassword(password, store[email].password)
  THEN /\ store' = [store EXCEPT ![email] = failedAttempt(store[email])]
       /\ fails' = oneMoreFail(email)
       /\ last' = LoginResponse(email, password, "login", 401, FALSE)
       /\ UNCHANGED <<sessions, nextToken>>
  ELSE IF email \notin Users
  THEN /\ last' = LoginResponse(email, password, "login", 401, FALSE)
       /\ UNCHANGED <<store, sessions, fails, nextToken>>
  ELSE IF ~store[email].confirmedEmail
  THEN /\ last' = LoginResponse(email, password, "login", 423, FALSE)
       /\ UNCHANGED <<store, sessions, fails, nextToken>>
  ELSE \* user.loginAttempts = 0 is set on the loaded document only
       /\ sessions' = sessions \cup {signToken(email)}
       /\ fails' = [fails EXCEPT ![email] = 0]
       /\ last' = Scenario(LoginResponse(email, password, "login", 200, TRUE),
                           IF last.e2e = 2 /\ last.user = email THEN 3 ELSE 0)
       /\ UNCHANGED <<store, nextToken>>

\* checkUserLocked without the locked branch
checkUserLocked_noLock(email, password) ==
  IF email \notin Users
  THEN /\ last' = LoginResponse(email, password, "checkUserLocked", 400, FALSE)
       /\ UNCHANGED <<store, sessions, fails, nextToken>>
  ELSE login(email, password)

\* whether the request now answered follows the third wrong password in a
\* row on a confirmed account
FourthAttempt(email) ==
  /\ last.op = "login" /\ last.handler = "login" /\ last.status = 401
  /\ last.user = email
  /\ fails[email] = 3
  /\ store[email].confirmedEmail

\* checkUserLocked that mails an unlock token it does not store
checkUserLocked_noMint(email, password) ==
  IF email \notin Users
  THEN /\ last' = LoginResponse(email, password, "checkUserLocked", 400, FALSE)
       /\ UNCHANGED <<store, sessions, fails, nextToken>>
  ELSE IF store[email].locked
  THEN /\ nextToken <= MaxTokens
       /\ nextToken' = nextToken + 1
       /\ fails' = IF password # "" /\ ~correctPassword(password, store[email].password)
                   THEN oneMoreFail(email) ELSE fails
       /\ \E mailOk \in BOOLEAN :
            IF mailOk
            THEN /\ store' = store
                 /\ last' = Scenario(Mailed(LoginResponse(email, password,
                                      "checkUserLocked", 423, FALSE), TRUE),
                                     IF FourthAttempt(email) THEN 1 ELSE 0)
            ELSE /\ store' = [store EXCEPT ![email].accountUnlockToken = NoToken]
                 /\ last' = Mailed(LoginResponse(email, password,
                                      "checkUserLocked", 500, FALSE), FALSE)
       /\ UNCHANGED sessions
  ELSE login(email, password)

\* exports.checkUserLocked, the middleware in front of login
checkUserLocked(email, password) ==
  IF email \notin Users
  THEN /\ last' = LoginResponse(email, password, "checkUserLocked", 400, FALSE)
       /\ UNCHANGED <<store, sessions, fails, nextToken>>
  ELSE IF store[email].locked
  THEN /\ nextToken <= MaxTokens
       /\ nextToken' = nextToken + 1
       /\ fails' = IF password # "" /\ ~correctPassword(password, store[email].password)
                   THEN oneMoreFail(email) ELSE fails
       /\ \E mailOk \in BOOLEAN :
            IF mailOk
            THEN /\ store' = [store EXCEPT ![email] = createAccountUnlockToken(@)]
                 /\ last' = Scenario(Mailed(LoginResponse(email, password,
                                      "checkUserLocked", 423, FALSE), TRUE),
                                     IF FourthAttempt(email) THEN 1 ELSE 0)
            ELSE /\ store' = [store EXCEPT ![email].accountUnlockToken = NoToken]
                 /\ last' = Mailed(LoginResponse(email, password,
                                      "checkUserLocked", 500, FALSE), FALSE)
       /\ UNCHANGED sessions
  ELSE login(email, password)

\* POST /login
LoginRequest(email, password) ==
  /\ checkUserLocked(email, password)
  /\ UNCHANGED <<now, updatedAt, spent>>

(* -------------------------- unlockAccount ----------------------------- *)
\* unlockAccount that leaves the unlock token stored
unlockAccount_keepToken(token) ==
  LET found == findByToken("accountUnlockToken", sha256(token)) IN
  IF found = {}
  THEN /\ last' = Response("unlockAccount", "", token, "unlockAccount", 401, FALSE)
       /\ UNCHANGED <<store, now, nextToken, sessions, fails, updatedAt, spent>>
  ELSE \E e \in found :
       /\ store' = [store EXCEPT ![e].loginAttempts = 0,
                                 ![e].locked = FALSE]
       /\ sessions' = sessions \cup {signToken(e)}
       /\ fails' = [fails EXCEPT ![e] = 0]
       /\ last' = Response("unlockAccount", e, token, "unlockAccount", 200, TRUE)
       /\ UNCHANGED <<now, nextToken, updatedAt, spent>>

\* unlockAccount that also marks the email confirmed
unlockAccount_confirms(token) ==
  LET found == findByToken("accountUnlockToken", sha256(token)) IN
  IF found = {}
  THEN /\ last' = Response("unlockAccount", "", token, "unlockAccount", 401, FALSE)
       /\ UNCHANGED <<store, now, nextToken, sessions, fails, updatedAt, spent>>
  ELSE \E e \in found :
       /\ store' = [store EXCEPT ![e].loginAttempts = 0,
                                 ![e].accountUnlockToken = NoToken,
                                 ![e].locked = FALSE,
                                 ![e].confirmedEmail = TRUE]
       /\ sessions' = sessions \cup {signToken(e)}
       /\ fails' = [fails EXCEPT ![e] = 0]
       /\ last' = Response("unlockAccount", e, token, "unlockAccount", 200, TRUE)
       /\ UNCHANGED <<now, nextToken, updatedAt, spent>>

\* unlockAccount that leaves the account locked
unlockAccount_keepLocked(token) ==
  LET found == findByToken("accountUnlockToken", sha256(token)) IN
  IF found = {}
  THEN /\ last' = Response("unlockAccount", "", token, "unlockAccount", 401, FALSE)
       /\ UNCHANGED <<store, now, nextToken, sessions, fails, updatedAt, spent>>
  ELSE \E e \in found :
       /\ store' = [store EXCEPT ![e].loginAttempts = 0,
                                 ![e].accountUnlockToken = NoToken]
       /\ sessions' = sessions \cup {signToken(e)}
       /\ fails' = [fails EXCEPT ![e] = 0]
       /\ last' = Response("unlockAccount", e, token, "unlockAccount", 200, TRUE)
       /\ UNCHANGED <<now, nextToken, updatedAt, spent>>

unlockAccount(token) ==
  LET found == findByToken("accountUnlockToken", sha256(token)) IN
  IF found = {}
  THEN /\ last' = Response("unlockAccount", "", token, "unlockAccount", 401, FALSE)
       /\ UNCHANGED <<store, now, nextToken, sessions, fails, updatedAt, spent>>
  ELSE \E e \in found :
       /\ store' = [store EXCEPT ![e].loginAttempts = 0,
                                 ![e].accountUnlockToken = NoToken,
                                 ![e].locked = FALSE]
       /\ sessions' = sessions \cup {signToken(e)}
       /\ fails' = [fails EXCEPT ![e] = 0]
       /\ last' = Scenario(
            Response("unlockAccount", e, token, "unlockAccount", 200, TRUE),
            IF last.e2e = 1 /\ last.user = e /\ token = nextToken - 1
            THEN 2 ELSE 0)
       /\ UNCHANGED <<now, nextToken, updatedAt, spent>>

(* -------------------------- forgotPassword ---------------------------- *)
\* forgotPassword that keeps a reset token the user already holds
forgotPassword_keepFirst(email) ==
  IF email \notin Users
  THEN /\ last' = Response("forgotPassword", email, NoToken, "forgotPassword", 404, FALSE)
       /\ UNCHANGED <<store, now, nextToken, sessions, fails, updatedAt, spent>>
  ELSE /\ nextToken <= MaxTokens
       /\ nextToken' = nextToken + 1
       /\ \E mailOk \in BOOLEAN :
            IF mailOk
            THEN /\ store' = IF store[email].passwordResetToken # NoToken
                             THEN store
                             ELSE [store EXCEPT ![email] = createPasswordResetToken(@)]
                 /\ last' = Mailed(Response("forgotPassword", email, NoToken,
                                            "forgotPassword", 200, FALSE), TRUE)
            ELSE /\ store' = [store EXCEPT ![email].passwordResetToken = NoToken,
                                           ![email].passwordResetExpires = NoTime]
                 /\ last' = Mailed(Response("forgotPassword", email, NoToken,
                                            "forgotPassword", 500, FALSE), FALSE)
       /\ UNCHANGED <<now, sessions, fails, updatedAt, spent>>

forgotPassword(email) ==
  IF email \notin Users
  THEN /\ last' = Response("forgotPassword", email, NoToken, "forgotPassword", 404, FALSE)
       /\ UNCHANGED <<store, now, nextToken, sessions, fails, updatedAt, spent>>
  ELSE /\ nextToken <= MaxTokens
       /\ nextToken' = nextToken + 1
       /\ \E mailOk \in BOOLEAN :
            IF mailOk
            THEN /\ store' = [store EXCEPT ![email] = createPasswordResetToken(@)]
                 /\ last' = Mailed(Response("forgotPassword", email, NoToken,
                                            "forgotPassword", 200, FALSE), TRUE)
            ELSE /\ store' = [store EXCEPT ![email].passwordResetToken = NoToken,
                                           ![email].passwordResetExpires = NoTime]
                 /\ last' = Mailed(Response("forgotPassword", email, NoToken,
                                            "forgotPassword", 500, FALSE), FALSE)
       /\ UNCHANGED <<now, sessions, fails, updatedAt, spent>>

(* -------------------------- resetPassword ----------------------------- *)
\* the reset lookup with $gte in place of $gt
findByResetToken_gte(hashedToken) ==
  {e \in Users : /\ store[e].passwordResetToken = hashedToken
                 /\ store[e].passwordResetExpires >= now}

\* User.findOne({ passwordResetToken, passwordResetExpires: { $gt: Date.now() } })
findByResetToken(hashedToken) ==
  {e \in Users : /\ store[e].passwordResetToken = hashedToken
                 /\ store[e].passwordResetExpires > now}

\* resetPassword that leaves the reset token and its expiry stored
resetPassword_keepToken(token) ==
  LET found == findByResetToken(sha256(token)) IN
  IF found = {}
  THEN /\ last' = Response("resetPassword", "", token, "resetPassword", 400, FALSE)
       /\ UNCHANGED <<store, now, nextToken, sessions, fails, updatedAt, spent>>
  ELSE \E e \in found, f \in PasswordForms :
       IF ~validPassword(f[1], f[2])
       THEN /\ last' = Response("resetPassword", e, token, "resetPassword",
                                ValidationErrorStatus, FALSE)
            /\ UNCHANGED <<store, now, nextToken, sessions, fails, updatedAt, spent>>
       ELSE /\ store' = [store EXCEPT ![e] = preSaveChangedAt(preSaveHash(@, f[1]))]
            /\ sessions' = sessions \cup {signToken(e)}
            /\ spent' = spent \cup {token}
            /\ last' = Response("resetPassword", e, token, "resetPassword", 200, TRUE)
            /\ UNCHANGED <<now, nextToken, fails, updatedAt>>

\* resetPassword that also lifts the lock
resetPassword_unlocks(token) ==
  LET found == findByResetToken(sha256(token)) IN
  IF found = {}
  THEN /\ last' = Response("resetPassword", "", token, "resetPassword", 400, FALSE)
       /\ UNCHANGED <<store, now, nextToken, sessions, fails, updatedAt, spent>>
  ELSE \E e \in found, f \in PasswordForms :
       IF ~validPassword(f[1], f[2])
       THEN /\ last' = Response("resetPassword", e, token, "resetPassword",
                                ValidationErrorStatus, FALSE)
            /\ UNCHANGED <<store, now, nextToken, sessions, fails, updatedAt, spent>>
       ELSE /\ store' = [store EXCEPT ![e] =
                 preSaveChangedAt(preSaveHash(
                   [@ EXCEPT !.passwordResetToken = NoToken,
                             !.passwordResetExpires = NoTime,
                             !.locked = FALSE,
                             !.loginAttempts = 0], f[1]))]
            /\ sessions' = sessions \cup {signToken(e)}
            /\ spent' = spent \cup {token}
            /\ last' = Response("resetPassword", e, token, "resetPassword", 200, TRUE)
            /\ UNCHANGED <<now, nextToken, fails, updatedAt>>

resetPassword(token) ==
  LET found == findByResetToken(sha256(token)) IN
  IF found = {}
  THEN /\ last' = Response("resetPassword", "", token, "resetPassword", 400, FALSE)
       /\ UNCHANGED <<store, now, nextToken, sessions, fails, updatedAt, spent>>
  ELSE \E e \in found, f \in PasswordForms :
       IF ~validPassword(f[1], f[2])
       THEN /\ last' = Response("resetPassword", e, token, "resetPassword",
                                ValidationErrorStatus, FALSE)
            /\ UNCHANGED <<store, now, nextToken, sessions, fails, updatedAt, spent>>
       ELSE /\ store' = [store EXCEPT ![e] =
                 preSaveChangedAt(preSaveHash(
                   [@ EXCEPT !.passwordResetToken = NoToken,
                             !.passwordResetExpires = NoTime], f[1]))]
            /\ sessions' = sessions \cup {signToken(e)}
            /\ spent' = spent \cup {token}
            /\ last' = Response("resetPassword", e, token, "resetPassword", 200, TRUE)
            /\ UNCHANGED <<now, nextToken, fails, updatedAt>>

(* ---------------------------- protect --------------------------------- *)
\* the request tokens a client can present: a session it was issued, a
\* token that does not carry the server's signature, or none
Forged == {[id |-> e, iat |-> 0, exp |-> MaxTime + 1, signed |-> FALSE] : e \in Emails}
Presentable == sessions \cup Forged \cup {NoSession}

\* protect without step 4, the changedPasswordAfter check
protect_noChangedCheck(token) ==
  IF token = NoSession THEN 401
  ELSE IF ~jwtVerify(token) THEN 401
  ELSE IF token.id \notin Users THEN 401
  ELSE 0

\* protect without step 2, jwt.verify
protect_noVerify(token) ==
  IF token = NoSession THEN 401
  ELSE IF token.id \notin Users THEN 401
  ELSE IF changedPasswordAfter(store[token.id], token.iat) THEN 401
  ELSE 0

\* exports.protect: the status it rejects with, or 0 when it calls next()
protect(token) ==
  IF token = NoSession THEN 401
  ELSE IF ~jwtVerify(token) THEN 401
  ELSE IF token.id \notin Users THEN 401
  ELSE IF changedPasswordAfter(store[token.id], token.iat) THEN 401
  ELSE 0

\* a request to any route behind protect
ProtectedRequest(token) ==
  /\ last' = Carrying(Response("protected", token.id, token.iat,
                      IF protect(token) = 0 THEN "handler" ELSE "protect",
                      IF protect(token) = 0 THEN 200 ELSE protect(token), FALSE), token)
  /\ UNCHANGED <<store, now, nextToken, sessions, fails, updatedAt, spent>>

(* --------------------------- restrictTo ------------------------------- *)
\* restrictTo that lets an admin through whatever the allow-set is
restrictTo_adminAlways(roles, user) ==
  IF user.role \notin roles /\ user.role # "admin" THEN 403 ELSE 0

\* exports.restrictTo(...roles): the status it rejects req.user with, or 0
\* when it calls next()
restrictTo(roles, user) ==
  IF user.role \notin roles THEN 403 ELSE 0

\* a request to a route behind protect and restrictTo(...roles)
RestrictedRequest(token, roles) ==
  /\ last' = [Carrying(
        IF protect(token) # 0
        THEN Response("restricted", token.id, token.iat, "protect",
                      protect(token), FALSE)
        ELSE IF restrictTo(roles, store[token.id]) # 0
        THEN Response("restricted", token.id, token.iat, "restrictTo",
                      restrictTo(roles, store[token.id]), FALSE)
        ELSE Response("restricted", token.id, token.iat, "handler", 200, FALSE),
        token) EXCEPT !.roles = roles]
  /\ UNCHANGED <<store, now, nextToken, sessions, fails, updatedAt, spent>>

(* -------------------------- updatePassword ---------------------------- *)
\* exports.updatePassword, reached through protect with req.user set
updatePassword(id, token, passwordCurrent, password, passwordConfirm) ==
  IF ~correctPassword(passwordCurrent, store[id].password)
  THEN /\ last' = Carrying(Response("updatePassword", id, token.iat, "updatePassword", 401, FALSE), token)
       /\ UNCHANGED <<store, sessions, updatedAt>>
  ELSE IF ~validPassword(password, passwordConfirm)
  THEN /\ last' = Carrying(Response("updatePassword", id, token.iat, "updatePassword",
                           ValidationErrorStatus, FALSE), token)
       /\ UNCHANGED <<store, sessions, updatedAt>>
  ELSE /\ store' = [store EXCEPT ![id] = preSaveChangedAt(preSaveHash(@, password))]
       /\ sessions' = sessions \cup {signToken(id)}
       /\ updatedAt' = [updatedAt EXCEPT ![id] = now]
       /\ last' = Carrying(Response("updatePassword", id, token.iat, "updatePassword", 200, TRUE), token)

\* PATCH /updateMyPassword
UpdatePasswordRequest(token) ==
  /\ IF protect(token) # 0
     THEN /\ last' = Carrying(Response("updatePassword", token.id, token.iat, "protect",
                              protect(token), FALSE), token)
          /\ UNCHANGED <<store, sessions, updatedAt>>
     ELSE \E cur \in GoodPasswords, f \in PasswordForms :
            updatePassword(token.id, token, cur, f[1], f[2])
  /\ UNCHANGED <<now, nextToken, fails, spent>>

(* ------------------------------ clock --------------------------------- *)
Tick ==
  /\ now < MaxTime
  /\ now' = now + 1
  /\ last' = Response("tick", "", NoToken, "", 0, FALSE)
  /\ UNCHANGED <<store, nextToken, sessions, fails, updatedAt, spent,
                 reqs, checked, mailed>>

(* ----------------------- requests in flight --------------------------- *)
\* The handlers again, one step per await: a read or a write of the users
\* collection is one step, and steps of different requests interleave.
\* save() writes the paths the request modified on its own copy.

\* the requests in flight, as a bag: two requests can hold the same copy
InFlight == BagToSet(reqs)
Arrives(request) ==
  /\ BagCardinality(reqs) < MaxRequests
  /\ reqs' = reqs (+) SetToBag({request})
Goto(r, request) == reqs' = (reqs (-) SetToBag({r})) (+) SetToBag({request})
Done(r) == reqs' = reqs (-) SetToBag({r})

\* POST /login arrives; checkUserLocked's findOne returns
checkUserLocked_findOne(email, password) ==
  /\ IF email \notin Users
     THEN /\ last' = LoginResponse(email, password, "checkUserLocked", 400, FALSE)
          /\ UNCHANGED <<reqs, nextToken>>
     ELSE IF store[email].locked
     THEN /\ nextToken <= MaxTokens
          /\ nextToken' = nextToken + 1
          /\ Arrives(Request("tokenSave", email, password, nextToken))
          /\ UNCHANGED last
     ELSE /\ Arrives(Request("loginFind", email, password, NoToken))
          /\ UNCHANGED <<last, nextToken>>
  /\ UNCHANGED <<store, now, sessions, fails, updatedAt, spent, checked>>

\* checkUserLocked's save of the unlock token lands, then sendEmail settles
checkUserLocked_save(r) ==
  /\ r.pc = "tokenSave"
  /\ store' = [store EXCEPT ![r.email].accountUnlockToken = sha256(r.token)]
  /\ \E mailOk \in BOOLEAN :
       IF mailOk
       THEN /\ last' = Mailed(LoginResponse(r.email, r.password,
                                  "checkUserLocked", 423, FALSE), TRUE)
            /\ Done(r)
       ELSE /\ Goto(r, [r EXCEPT !.pc = "tokenRollback"])
            /\ UNCHANGED last
  /\ UNCHANGED <<now, nextToken, sessions, fails, updatedAt, spent, checked>>

\* the save in checkUserLocked's catch block lands
checkUserLocked_rollback(r) ==
  /\ r.pc = "tokenRollback"
  /\ store' = [store EXCEPT ![r.email].accountUnlockToken = NoToken]
  /\ last' = Mailed(LoginResponse(r.email, r.password,
                        "checkUserLocked", 500, FALSE), FALSE)
  /\ Done(r)
  /\ UNCHANGED <<now, nextToken, sessions, fails, updatedAt, spent, checked>>

\* login's save lands with an atomic increment of the stored counter
login_save_inc(r) ==
  /\ r.pc = "attemptSave"
  /\ store' = [store EXCEPT
       ![r.email].loginAttempts = @ + 1,
       ![r.email].locked =
          IF store[r.email].loginAttempts + 1 > LoginAttemptsLimit
          THEN TRUE ELSE @]
  /\ Done(r)
  /\ UNCHANGED <<now, nextToken, sessions, last, fails, updatedAt, spent,
                 checked>>

\* the save login issued without awaiting it lands
login_save(r) ==
  /\ r.pc = "attemptSave"
  /\ store' = [store EXCEPT
       ![r.email].loginAttempts = r.attempts,
       ![r.email].locked = IF r.locks THEN TRUE ELSE @]
  /\ Done(r)
  /\ UNCHANGED <<now, nextToken, sessions, last, fails, updatedAt, spent,
                 checked>>

\* login's findOne returns; the handler compares the password, issues its
\* save and answers
login_findOne(r) ==
  /\ r.pc = "loginFind"
  /\ LET user == store[r.email]
         counted == failedAttempt(user)
     IN
     IF ~correctPassword(r.password, user.password)
     THEN /\ checked[r.email] < MaxChecks
          /\ checked' = [checked EXCEPT ![r.email] = @ + 1]
          /\ fails' = oneMoreFail(r.email)
          /\ last' = LoginResponse(r.email, r.password, "login", 401, FALSE)
          /\ Goto(r, [r EXCEPT
                        !.pc = "attemptSave",
                        !.attempts = counted.loginAttempts,
                        !.locks = counted.loginAttempts > LoginAttemptsLimit])
          /\ UNCHANGED sessions
     ELSE IF ~user.confirmedEmail
     THEN /\ last' = LoginResponse(r.email, r.password, "login", 423, FALSE)
          /\ Done(r)
          /\ UNCHANGED <<sessions, fails, checked>>
     ELSE /\ sessions' = sessions \cup {signToken(r.email)}
          /\ fails' = [fails EXCEPT ![r.email] = 0]
          /\ last' = LoginResponse(r.email, r.password, "login", 200, TRUE)
          /\ Done(r)
          /\ UNCHANGED checked
  /\ UNCHANGED <<store, now, nextToken, updatedAt, spent>>

\* PATCH /unlockAccount/:token arrives; unlockAccount's findOne returns
unlockAccount_findOne(token) ==
  /\ LET found == findByToken("accountUnlockToken", sha256(token)) IN
     IF found = {}
     THEN /\ last' = Response("unlockAccount", "", token, "unlockAccount",
                              401, FALSE)
          /\ UNCHANGED reqs
     ELSE \E e \in found :
          /\ Arrives(Request("unlockSave", e, "", token))
          /\ UNCHANGED last
  /\ UNCHANGED <<store, now, nextToken, sessions, fails, updatedAt, spent,
                 checked>>

\* unlockAccount's save lands and the handler answers with a session
unlockAccount_save(r) ==
  /\ r.pc = "unlockSave"
  /\ store' = [store EXCEPT ![r.email].loginAttempts = 0,
                            ![r.email].accountUnlockToken = NoToken,
                            ![r.email].locked = FALSE]
  /\ sessions' = sessions \cup {signToken(r.email)}
  /\ fails' = [fails EXCEPT ![r.email] = 0]
  /\ last' = Response("unlockAccount", r.email, r.token, "unlockAccount",
                      200, TRUE)
  /\ Done(r)
  /\ UNCHANGED <<now, nextToken, updatedAt, spent, checked>>

(* -------------------------- specifications ---------------------------- *)
\* a signup body without passwordChangedAt, and one that dates it ahead
\* requests served one at a time leave no request in flight
Sequential == UNCHANGED <<reqs, checked, mailed>>

\* the same, keeping a record of the recovery tokens that reached a mailbox:
\* the handler that mailed it, the account, the raw token
Recording ==
  /\ UNCHANGED <<reqs, checked>>
  /\ mailed' = mailed \cup
       (IF last'.mail = "sent" /\ last'.op \in {"login", "forgotPassword"}
        THEN {[kind |-> last'.op, user |-> last'.user, raw |-> nextToken]}
        ELSE {})

Signup == \E e \in Emails, f \in PasswordForms :
            signup(e, f[1], f[2], NoTime, DefaultRole) /\ Sequential
SignupDated == \E e \in Emails, f \in PasswordForms :
                 signup(e, f[1], f[2], MaxTime, DefaultRole) /\ Sequential
\* a signup body that names a role
SignupAs == \E e \in Emails, f \in PasswordForms, role \in Roles :
              signup(e, f[1], f[2], NoTime, role) /\ Sequential
Restricted == \E tok \in Presentable, roles \in SUBSET Roles :
                RestrictedRequest(tok, roles) /\ Sequential
ConfirmEmail == \E t \in RawTokens : confirmEmail(t) /\ Sequential
Login == \E e \in Emails, p \in Passwords \cup {""} :
           LoginRequest(e, p) /\ Sequential
UnlockAccount == \E t \in RawTokens : unlockAccount(t) /\ Sequential
ForgotPassword == \E e \in Emails : forgotPassword(e) /\ Sequential
ResetPassword == \E t \in RawTokens : resetPassword(t) /\ Sequential
Protected == \E tok \in Presentable : ProtectedRequest(tok) /\ Sequential
UpdatePassword == \E tok \in Presentable :
                    UpdatePasswordRequest(tok) /\ Sequential

\* the account the concurrent requests are about, and its password
RaceEmail == "a@x.com"
RacePassword == "pass1234"
SignupOne == signup(RaceEmail, RacePassword, RacePassword, NoTime, DefaultRole)
               /\ Sequential
\* the account confirms with the token mailed to it
ConfirmOne == \E t \in RawTokens :
                /\ findByToken("emailConfirmToken", sha256(t)) # {}
                /\ confirmEmail(t) /\ Sequential
LoginArrives == \E p \in {RacePassword, "pass5678"} :
                  checkUserLocked_findOne(RaceEmail, p) /\ UNCHANGED mailed
TokenSaveLands == \E r \in InFlight : checkUserLocked_save(r) /\ UNCHANGED mailed
RollbackLands == \E r \in InFlight :
                   checkUserLocked_rollback(r) /\ UNCHANGED mailed
LoginFinds == \E r \in InFlight : login_findOne(r) /\ UNCHANGED mailed
AttemptSaveLands == \E r \in InFlight : login_save(r) /\ UNCHANGED mailed
UnlockArrives == \E t \in RawTokens :
                   unlockAccount_findOne(t) /\ UNCHANGED mailed
UnlockSaveLands == \E r \in InFlight : unlockAccount_save(r) /\ UNCHANGED mailed

\* login and password recovery of one account, the mailed tokens recorded
LoginOne == \E p \in {RacePassword, "pass5678"} :
              LoginRequest(RaceEmail, p) /\ Recording
ForgotOne == forgotPassword(RaceEmail) /\ Recording

\* signup, confirmation, login, lockout and unlock
Next ==
  \/ Signup
  \/ ConfirmEmail
  \/ Login
  \/ UnlockAccount

Spec == Init /\ [][Next]_vars

\* password recovery against the clock
NextReset ==
  \/ Signup
  \/ ForgotPassword
  \/ ResetPassword
  \/ Tick

SpecReset == Init /\ [][NextReset]_vars

\* sessions, the access guard and password changes against the clock
NextSession ==
  \/ Signup
  \/ SignupDated
  \/ ConfirmEmail
  \/ Protected
  \/ UpdatePassword
  \/ Tick

SpecSession == Init /\ [][NextSession]_vars

\* roles: signup with a role, confirmation, and routes behind restrictTo
NextRole ==
  \/ SignupAs
  \/ ConfirmEmail
  \/ Restricted

SpecRole == Init /\ [][NextRole]_vars

\* login, lockout and unlock of one account with requests interleaved at
\* their awaits
NextRace ==
  \/ SignupOne
  \/ ConfirmOne
  \/ LoginArrives
  \/ TokenSaveLands
  \/ RollbackLands
  \/ LoginFinds
  \/ AttemptSaveLands
  \/ UnlockArrives
  \/ UnlockSaveLands

SpecRace == Init /\ [][NextRace]_vars

\* lockout and password recovery of one account against the clock,
\* requests served one at a time
NextRecovery ==
  \/ SignupOne
  \/ LoginOne
  \/ UnlockAccount
  \/ ForgotOne
  \/ ResetPassword
  \/ Tick

SpecRecovery == Init /\ [][NextRecovery]_vars

(* ============================== claims ================================ *)

\* the account a step's login request addressed, when it exists
LoginOf(u) == last'.op = "login" /\ last'.user = u /\ u \in Users

\* C1 (as stated): a login request for an account stored as locked always
\* ends with status 423 and the hash of a freshly minted unlock token stored
\* on the user, without reaching login.
C1_AlwaysRejected423 ==
  [][\A u \in Emails : (LoginOf(u) /\ store[u].locked) =>
        /\ last'.handler = "checkUserLocked"
        /\ last'.status = 423
        /\ ~last'.issued
        /\ store'[u].accountUnlockToken = sha256(nextToken)]_vars

\* C1 (amended): a login request for an account stored as locked never
\* reaches login (no password check, no counter change, no session); it
\* mints a fresh unlock token and ends with 423 and the token's hash stored,
\* or, when the email cannot be sent, with 500 and the unlock token cleared.
C1_LockedNeverReachesLogin ==
  [][\A u \in Emails : (LoginOf(u) /\ store[u].locked) =>
        /\ last'.handler = "checkUserLocked"
        /\ ~last'.issued
        /\ sessions' = sessions
        /\ store'[u].loginAttempts = store[u].loginAttempts
        /\ store'[u].locked
        /\ nextToken' = nextToken + 1
        /\ last'.status \in {423, 500}
        /\ last'.status = 423 => store'[u].accountUnlockToken = sha256(nextToken)
        /\ last'.status = 500 => store'[u].accountUnlockToken = NoToken]_vars

\* C1 witness: a locked account was just refused by checkUserLocked with the
\* right password in the request
C1_Witness ==
  /\ last.op = "login" /\ last.handler = "checkUserLocked" /\ last.status = 423
  /\ last.user \in Users
  /\ store[last.user].locked
  /\ store[last.user].accountUnlockToken # NoToken
  /\ correctPassword(last.password, store[last.user].password)

\* C2: once three consecutive login requests with a wrong password have
\* completed for an account, with no successful login or unlock in between,
\* the stored user is locked.
C2_ThreeFailuresLock ==
  \A u \in Users : fails[u] >= 3 => store[u].locked

\* C2 witness: the third consecutive wrong password was just counted by login
C2_Witness ==
  /\ last.op = "login" /\ last.handler = "login" /\ last.status = 401
  /\ last.user \in Users
  /\ fails[last.user] = 3
  /\ store[last.user].locked

\* C3: unlockAccount(t) with the hash of t stored as some user's
\* accountUnlockToken leaves that user with loginAttempts 0, unlocked, the
\* token cleared and a session issued; with a hash that matches no user it
\* fails (401), issues no session and changes no stored user.
C3_UnlockAccount ==
  [][last'.op = "unlockAccount" =>
       LET found == {e \in Users : store[e].accountUnlockToken = sha256(last'.token)} IN
       IF found # {}
       THEN /\ last'.user \in found
            /\ last'.status = 200 /\ last'.issued
            /\ signToken(last'.user) \in sessions'
            /\ store'[last'.user].loginAttempts = 0
            /\ ~store'[last'.user].locked
            /\ store'[last'.user].accountUnlockToken = NoToken
       ELSE /\ last'.status = 401 /\ ~last'.issued
            /\ store' = store
            /\ sessions' = sessions]_vars

\* C3 witness: a locked account was just unlocked with its token
C3_Witness ==
  /\ last.op = "unlockAccount" /\ last.status = 200 /\ last.issued
  /\ last.user \in Users
  /\ ~store[last.user].locked
  /\ store[last.user].loginAttempts = 0

\* C4: after a successful updatePassword for a user, every session of that
\* user issued strictly before the change is rejected by protect with 401,
\* and a request carrying it does not reach the protected handler.
C4_OldSessionsRejected ==
  /\ \A tok \in sessions :
       (updatedAt[tok.id] # NoTime /\ tok.iat < updatedAt[tok.id]) => protect(tok) = 401
  /\ (/\ last.op = "protected" /\ last.user \in Users
      /\ updatedAt[last.user] # NoTime /\ last.token < updatedAt[last.user])
       => (last.handler = "protect" /\ last.status = 401)

\* C4 witness: a request carrying a signed, unexpired session issued before
\* the user's password update was just rejected by protect
C4_Witness ==
  /\ last.op = "protected" /\ last.handler = "protect" /\ last.status = 401
  /\ last.user \in Users
  /\ updatedAt[last.user] # NoTime
  /\ \E tok \in sessions : /\ tok.id = last.user /\ tok.iat = last.token
                           /\ tok.iat < updatedAt[tok.id]
                           /\ jwtVerify(tok)

\* C5 (as stated): resetPassword with a raw token that already reset a
\* password fails with an AuthenticationError (401) and changes nothing.
C5_ReuseFails401 ==
  [][(last'.op = "resetPassword" /\ last'.token \in spent) =>
       /\ last'.status = 401 /\ ~last'.issued
       /\ store' = store
       /\ sessions' = sessions]_vars

\* C5 (amended): resetPassword with a raw token that already reset a
\* password fails with status 400 (token invalid or expired), issues no
\* session and changes neither the password nor any token field.
C5_ReuseFails400 ==
  [][(last'.op = "resetPassword" /\ last'.token \in spent) =>
       /\ last'.status = 400 /\ ~last'.issued
       /\ store' = store
       /\ sessions' = sessions]_vars

\* C5 witness: a spent reset token was just submitted again before the
\* expiry it was minted with
C5_Witness ==
  /\ last.op = "resetPassword" /\ last.status = 400
  /\ last.token \in spent
  /\ now = 0

\* C6: resetPassword with a raw token whose hash is the stored
\* passwordResetToken fails and leaves the password unchanged when the time
\* is at or after passwordResetExpires; it succeeds only when the hash
\* matches and the time is before the expiry.
C6_ExpiredResetFails ==
  [][last'.op = "resetPassword" =>
       LET found == {e \in Users : store[e].passwordResetToken = sha256(last'.token)} IN
       /\ \A e \in found : now >= store[e].passwordResetExpires =>
            /\ last'.status # 200 /\ ~last'.issued
            /\ store'[e].password = store[e].password
       /\ last'.status = 200 =>
            /\ last'.user \in found
            /\ now < store[last'.user].passwordResetExpires]_vars

\* C6 witness: a reset with the stored token was just refused at its expiry
\* instant
C6_Witness ==
  /\ last.op = "resetPassword" /\ last.status = 400
  /\ \E e \in Users : /\ store[e].passwordResetToken = sha256(last.token)
                      /\ store[e].passwordResetExpires = now

\* C7: a user created by a valid signup has confirmedEmail false and a
\* stored emailConfirmToken hash; confirmEmail with the matching raw token
\* sets confirmedEmail and clears the token; confirmEmail with any other
\* value fails with 401 and changes no user.
C7_SignupAndConfirm ==
  [][/\ (last'.op = "signup" /\ last'.user \notin Users /\ last'.user \in DOMAIN store') =>
          /\ ~store'[last'.user].confirmedEmail
          /\ store'[last'.user].emailConfirmToken # NoToken
     /\ last'.op = "confirmEmail" =>
          LET found == {e \in Users : store[e].emailConfirmToken = sha256(last'.token)} IN
          IF found # {}
          THEN /\ last'.user \in found
               /\ last'.status = 200
               /\ store'[last'.user].confirmedEmail
               /\ store'[last'.user].emailConfirmToken = NoToken
          ELSE /\ last'.status = 401 /\ ~last'.issued
               /\ store' = store]_vars

\* C7 witness: a signed-up user was just confirmed while another user is
\* still waiting with a token
C7_Witness ==
  /\ last.op = "confirmEmail" /\ last.status = 200
  /\ last.user \in Users
  /\ store[last.user].confirmedEmail
  /\ \E e \in Users : ~store[e].confirmedEmail /\ store[e].emailConfirmToken # NoToken

\* C8: login issues a session only when the password matches and
\* confirmedEmail is true; when the password matches and confirmedEmail is
\* false, login rejects with 423 and no stored field of any user changes.
C8_UnconfirmedLogin ==
  [][(last'.op = "login" /\ last'.handler = "login") =>
       LET u == last'.user
           matches == /\ u \in Users
                      /\ last'.password # ""
                      /\ correctPassword(last'.password, store[u].password)
       IN /\ last'.issued => (matches /\ store[u].confirmedEmail)
          /\ sessions' # sessions => last'.issued
          /\ (matches /\ ~store[u].confirmedEmail) =>
               /\ last'.status = 423 /\ ~last'.issued
               /\ store' = store]_vars

\* C8 witness: login just refused the right password of an unconfirmed user
C8_Witness ==
  /\ last.op = "login" /\ last.handler = "login" /\ last.status = 423
  /\ last.user \in Users
  /\ ~store[last.user].confirmedEmail
  /\ correctPassword(last.password, store[last.user].password)

\* C9: after every successful login the stored loginAttempts of that user
\* is 0.
C9_SuccessResetsAttempts ==
  (last.op = "login" /\ last.status = 200 /\ last.issued)
    => store[last.user].loginAttempts = 0

\* C10 (as stated): a locked user has loginAttempts > 3.
C10_LockedAboveThree ==
  \A u \in Users : store[u].locked => store[u].loginAttempts > 3

\* C10 (amended): a locked user has loginAttempts > 2, that is at least 3:
\* the account locks on the third counted failure.
C10_LockedAtLeastThree ==
  \A u \in Users : store[u].locked => store[u].loginAttempts > LoginAttemptsLimit

\* C10 witness: an account was just locked by its third counted failure
C10_Witness ==
  \E u \in Users : /\ store[u].locked
                   /\ store[u].loginAttempts = 3
                   /\ last.op = "login" /\ last.user = u /\ last.handler = "login"

\* C11: in each flow that mints a token and mails it (signup confirmation,
\* locked-account unlock, forgotPassword), when sendEmail fails the request
\* ends with status 500 and the token fields it minted are cleared on the
\* stored user.
C11_FailedMailRollsBack ==
  (last.mail = "failed" /\ last.user \in Users) =>
     /\ last.status = 500
     /\ last.op = "signup" => store[last.user].emailConfirmToken = NoToken
     /\ last.op = "login" => store[last.user].accountUnlockToken = NoToken
     /\ last.op = "forgotPassword" =>
          /\ store[last.user].passwordResetToken = NoToken
          /\ store[last.user].passwordResetExpires = NoTime

\* C12: a login request with a non-empty email and password gets the same
\* response (status and message) when the email belongs to no user as when
\* it belongs to an unlocked user with another password: the 401
\* 'Incorrect email or password!' of login.
C12_UnknownEmailLooksLikeWrongPassword ==
  [][(last'.op = "login" /\ last'.password # "") =>
       LET u == last'.user
           unknown == u \notin Users
           wrong == /\ u \in Users
                    /\ ~store[u].locked
                    /\ ~correctPassword(last'.password, store[u].password)
       IN (unknown \/ wrong) =>
            /\ last'.status = 401
            /\ last'.handler = "login"]_vars

\* C13: protect hands a request to the handler behind it only if the
\* request carries a token, the token verifies (signature and expiry), the
\* user of the token exists and that user's passwordChangedAt is not later
\* than the token's issued-at; a request failing a check is rejected with
\* 401 by protect, changes nothing and never reaches the handler.
C13_ProtectPassesOnlyValid ==
  [][last'.op \in {"protected", "updatePassword"} =>
       LET tok == last'.bearer
           valid == /\ tok # NoSession
                    /\ tok.signed
                    /\ now < tok.exp
                    /\ tok.id \in Users
                    /\ ~(store[tok.id].passwordChangedAt > tok.iat)
       IN /\ last'.handler # "protect" => valid
          /\ ~valid => /\ last'.handler = "protect"
                       /\ last'.status = 401
                       /\ ~last'.issued
                       /\ store' = store
                       /\ sessions' = sessions]_vars

\* C13 witness: a request with a signed, unexpired session of an existing
\* user just reached the handler behind protect
C13_Witness ==
  /\ last.op = "protected" /\ last.handler = "handler" /\ last.status = 200
  /\ last.bearer \in sessions
  /\ last.bearer.id \in Users

\* C14: restrictTo(roles) lets an authenticated request proceed if and only
\* if the role of its user is in the allow-set; otherwise it rejects with
\* 403 and the handler behind it is not run.
C14_RestrictToAllowSet ==
  [][(last'.op = "restricted" /\ last'.handler # "protect") =>
       LET role == store[last'.user].role IN
       IF role \in last'.roles
       THEN last'.handler = "handler" /\ last'.status = 200
       ELSE last'.handler = "restrictTo" /\ last'.status = 403]_vars

\* C14 witness: an admin was just refused by an allow-set without admin
C14_Witness ==
  /\ last.op = "restricted" /\ last.handler = "restrictTo" /\ last.status = 403
  /\ last.user \in Users
  /\ store[last.user].role = "admin"
  /\ last.roles = {"user", "guide"}

\* C15: on a confirmed account with three wrong-password logins in a row,
\* the next login attempt is answered by checkUserLocked with exactly one
\* unlock mail and, the mail delivered, with 423 and the hash of the mailed
\* token stored; unlockAccount with the mailed raw token then succeeds; a
\* login with the correct password after that succeeds and issues a session.
C15_LockoutEndToEnd ==
  [][LET fourth ==
           \A u \in Users :
             (fails[u] = 3 /\ store[u].confirmedEmail /\ last'.op = "login"
                /\ last'.user = u) =>
               (/\ last'.handler = "checkUserLocked"
                /\ last'.mail # "none"
                /\ nextToken' = nextToken + 1
                /\ (last'.mail = "sent" =>
                      (/\ last'.status = 423
                       /\ ~last'.issued
                       /\ store'[u].accountUnlockToken = sha256(nextToken))))
         unlock ==
           (last.e2e = 1 /\ last'.op = "unlockAccount"
              /\ last'.token = nextToken - 1) =>
             (/\ last'.status = 200 /\ last'.issued
              /\ last'.user = last.user
              /\ ~store'[last.user].locked
              /\ last'.e2e = 2)
         loginAgain ==
           (last.e2e = 2 /\ last'.op = "login" /\ last'.user = last.user
              /\ correctPassword(last'.password, store[last.user].password)) =>
             (/\ last'.status = 200 /\ last'.issued
              /\ last'.handler = "login"
              /\ signToken(last.user) \in sessions'
              /\ last'.e2e = 3)
     IN fourth /\ unlock /\ loginAgain]_vars

\* C15 witness: the whole scenario has just run, step after step
C15_Witness ==
  /\ last.e2e = 3
  /\ last.op = "login" /\ last.status = 200 /\ last.issued
  /\ store[last.user].confirmedEmail

\* C16: in every reachable state a user with confirmedEmail true has no
\* stored emailConfirmToken, and confirmedEmail turns true only in a
\* successful confirmEmail for that user, with the token stored for them.
C16_ConfirmedOnlyByConfirmEmail ==
  [][/\ \A u \in Users : store[u].confirmedEmail =>
                            store[u].emailConfirmToken = NoToken
     /\ \A u \in DOMAIN store' :
          (/\ store'[u].confirmedEmail =>
                store'[u].emailConfirmToken = NoToken
           /\ (store'[u].confirmedEmail
                 /\ (u \notin Users \/ ~store[u].confirmedEmail)) =>
                (/\ u \in Users
                 /\ last'.op = "confirmEmail" /\ last'.status = 200
                 /\ last'.user = u
                 /\ store[u].emailConfirmToken = sha256(last'.token)))]_vars

\* C16 witness: a confirmed user has been locked out and unlocked again,
\* while another user still waits with a confirmation token
C16_Witness ==
  /\ last.op = "unlockAccount" /\ last.status = 200
  /\ last.user \in Users
  /\ store[last.user].confirmedEmail
  /\ store[last.user].emailConfirmToken = NoToken
  /\ \E e \in Users : ~store[e].confirmedEmail /\ store[e].emailConfirmToken # NoToken

\* C20: no session token is issued for a user whose confirmedEmail is
\* false, except by confirmEmail in the step that sets it to true.
C20_NoSessionUnconfirmed ==
  [][(last'.issued /\ last'.op # "confirmEmail") =>
       (/\ last'.user \in Users
        /\ store[last'.user].confirmedEmail
        /\ store'[last'.user].confirmedEmail)]_vars

\* C17: when login has returned 'Incorrect email or password' for a wrong
\* password, the incremented loginAttempts is already in the store.
C17_CountedBeforeResponse ==
  \A r \in InFlight :
    r.pc = "attemptSave" => store[r.email].loginAttempts >= r.attempts

\* C18: login writes the counter it read plus one, whatever the store holds
\* when the write lands, and the stored counter never exceeds the number of
\* wrong passwords compared; so two logins that read the same counter raise
\* it by one, and more than three wrong passwords can be compared before
\* locked is set.
C18_LostUpdate ==
  [][/\ \A r \in InFlight :
          (r.pc = "attemptSave" /\ reqs' = reqs (-) SetToBag({r})) =>
            (/\ store'[r.email].loginAttempts = r.attempts
             /\ store'[r.email].locked = (store[r.email].locked \/ r.attempts > LoginAttemptsLimit))
     /\ \A u \in Users : store[u].loginAttempts <= checked[u]]_vars

\* C18 witness: four wrong passwords have been compared, every write has
\* landed, no unlock token was ever minted, and the account is not locked
C18_Witness ==
  /\ RaceEmail \in Users
  /\ checked[RaceEmail] = 4
  /\ reqs = EmptyBag
  /\ nextToken = 2
  /\ ~store[RaceEmail].locked
  /\ store[RaceEmail].loginAttempts = 2

\* C19: in every reachable state, requests interleaved, a user with a
\* stored accountUnlockToken is locked.
C19_TokenOnlyWhileLocked ==
  \A u \in Users : store[u].accountUnlockToken # NoToken => store[u].locked

\* whether raw token t is the one most recently mailed to user u by handler
\* kind
LatestMailed(kind, u, t) ==
  /\ [kind |-> kind, user |-> u, raw |-> t] \in mailed
  /\ \A m \in mailed : (m.kind = kind /\ m.user = u) => m.raw <= t

\* C21: for each user and each kind of recovery token at most one raw token
\* is valid at a time; a mint stores the hash of the new token in place of
\* the old one, and unlockAccount and resetPassword succeed only with the
\* token most recently mailed to the user, never with an earlier one.
C21_OnlyLatestTokenValid ==
  [][LET one ==
           \A u \in Users :
             /\ Cardinality({t \in RawTokens :
                   sha256(t) = store[u].accountUnlockToken}) <= 1
             /\ Cardinality({t \in RawTokens :
                   sha256(t) = store[u].passwordResetToken}) <= 1
         minted ==
           /\ (last'.op = "login" /\ last'.mail = "sent") =>
                store'[last'.user].accountUnlockToken = sha256(nextToken)
           /\ (last'.op = "forgotPassword" /\ last'.mail = "sent") =>
                store'[last'.user].passwordResetToken = sha256(nextToken)
         accepted ==
           /\ (last'.op = "unlockAccount" /\ last'.status = 200) =>
                LatestMailed("login", last'.user, last'.token)
           /\ (last'.op = "resetPassword" /\ last'.status = 200) =>
                LatestMailed("forgotPassword", last'.user, last'.token)
     IN one /\ minted /\ accepted]_vars

\* C21 witness: an unlock token mailed earlier was just refused, a later
\* one being stored for the same user
C21_Witness ==
  /\ last.op = "unlockAccount" /\ last.status = 401
  /\ \E m \in mailed, n \in mailed :
       /\ m.kind = "login" /\ n.kind = "login"
       /\ m.user = n.user
       /\ m.raw = last.token
       /\ m.raw < n.raw
       /\ store[n.user].accountUnlockToken = sha256(n.raw)
       /\ store[n.user].locked

\* C22: a successful resetPassword leaves locked and loginAttempts of the
\* user as they were: of the stored user it changes the password, the reset
\* token and its expiry (and the passwordChangedAt stamp of the save), it
\* changes no other user, and it issues a session, also when the account is
\* locked.
C22_ResetKeepsLock ==
  [][(last'.op = "resetPassword" /\ last'.status = 200) =>
       LET u == last'.user IN
       /\ u \in Users
       /\ store'[u].locked = store[u].locked
       /\ store'[u].loginAttempts = store[u].loginAttempts
       /\ store' = [store EXCEPT
             ![u].password = store'[u].password,
             ![u].passwordChangedAt = store'[u].passwordChangedAt,
             ![u].passwordResetToken = NoToken,
             ![u].passwordResetExpires = NoTime]
       /\ last'.issued
       /\ signToken(u) \in sessions']_vars

\* C22 witness: a locked account has just reset its password and holds a
\* session, still locked
C22_Witness ==
  /\ last.op = "resetPassword" /\ last.status = 200 /\ last.issued
  /\ last.user \in Users
  /\ store[last.user].locked
  /\ store[last.user].loginAttempts > LoginAttemptsLimit
  /\ \E t \in sessions : t.id = last.user

====
